---------------------------- MODULE Spec2Model ----------------------------
(***************************************************************************)
(* Executive-consultation backend (src/server.py): request handlers over   *)
(* two document collections.  Every handler that awaits the store is split *)
(* at its await: the part before it runs atomically on the event loop, the *)
(* store operation and the rest of the handler run when the store answers. *)
(* Time is counted in clock ticks relative to process start; documents     *)
(* that were in the database before the process started carry timestamps   *)
(* <= 0.                                                                   *)
(***************************************************************************)
EXTENDS Integers, Sequences, FiniteSets, TLC

VARIABLES
    clock,          \* reading of datetime.utcnow()
    store,          \* db.executive_consultations, in insertion order
    status_checks,  \* db.status_checks, in insertion order
    uuids,          \* values uuid.uuid4() has produced
    slots,          \* the requests suspended at their await, one per slot
    out,            \* the response the last step sent, if it sent one
    ctorSeen,       \* history: Len(store) when store[i] was constructed
    acked           \* history: create requests answered success=true

vars == <<clock, store, status_checks, uuids, slots, out, ctorSeen, acked>>

---------------------------------------------------------------------------
(* Bounds of the model *)

MaxTicks == 1          \* clock readings 0 .. MaxTicks
NumUuids == 2          \* uuid4 values that can still be drawn
MaxSlots == 2          \* requests in flight at once
SeedExtra == 1         \* stored documents beyond the listing cap in InitFull
SeedLen == 3           \* documents stored before the process started in Init

(* Program constants *)

MinTextLen == 2
MaxTextLen == 100
MinMessageLen == 10
MaxMessageLen == 2000
ListLimit == 100
StatusListLimit == 1000

None == "None"

InquiryType == {"advisory", "interim", "transformation", "board", "consulting", "other"}

ConsultationStatus == {"new", "contacted", "in_progress", "closed"}

---------------------------------------------------------------------------
(* Strings.  A text field is a run of one character, [ch, n]; an e-mail    *)
(* address is a sequence of characters.                                    *)

Text(ch, n) == [ch |-> ch, n |-> n]

StrLen(t) == t.n

Lower(c) == CASE c = "J" -> "j" [] c = "X" -> "x" [] c = "C" -> "c" [] OTHER -> c

AtSigns(e) == {i \in 1..Len(e) : e[i] = "@"}

AtIndex(e) == CHOOSE i \in AtSigns(e) : TRUE

\* EmailStr accepts local@domain with one "@", a non-empty local part and a
\* dotted domain with non-empty labels.
ValidEmail(e) ==
    /\ Cardinality(AtSigns(e)) = 1
    /\ AtIndex(e) > 1
    /\ \E d \in 1..Len(e) : /\ e[d] = "."
                            /\ d > AtIndex(e) + 1
                            /\ d < Len(e)
    /\ \A d \in 1..Len(e) : e[d] = "." => (d > 1 /\ d < Len(e) /\ e[d - 1] \notin {".", "@"})

\* EmailStr returns the address with the part from "@" on lower-cased; the
\* local part keeps its case.
NormalizeEmail(e) == [i \in 1..Len(e) |-> IF i > AtIndex(e) THEN Lower(e[i]) ELSE e[i]]

\* Faulty variant: the address is kept as typed.
EmailStrAsIs(e) == e

EmailStr(e) == NormalizeEmail(e)


---------------------------------------------------------------------------
(* Validation layer *)

ValidText(t) == StrLen(t) >= MinTextLen /\ StrLen(t) <= MaxTextLen

\* Faulty variant: min_length left out.
ValidMessageNoMin(t) == StrLen(t) <= MaxMessageLen

ValidMessage(t) == StrLen(t) >= MinMessageLen /\ StrLen(t) <= MaxMessageLen

\* The six client-supplied fields, checked field by field.
ValidFields(d) ==
    /\ ValidText(d.name)
    /\ ValidEmail(d.email)
    /\ ValidText(d.company)
    /\ ValidText(d.title)
    /\ d.inquiry_type \in InquiryType
    /\ ValidMessage(d.message)

\* Faulty variant: a create shape without constraints.
ExecutiveConsultationCreateLax(raw) == [ok |-> TRUE, val |-> raw]

\* ExecutiveConsultationCreate(**raw): the validated create shape, or a
\* ValidationError (ok = FALSE).
ExecutiveConsultationCreate(raw) ==
    IF ValidFields(raw)
    THEN [ok |-> TRUE, val |-> [raw EXCEPT !.email = EmailStr(raw.email)]]
    ELSE [ok |-> FALSE, val |-> raw]

\* ExecutiveConsultation(**d) for a dict d that carries every field: the
\* stored shape, or a ValidationError.
ExecutiveConsultation(d) ==
    IF ValidFields(d) /\ d.status \in ConsultationStatus
    THEN [ok |-> TRUE, val |-> [d EXCEPT !.email = EmailStr(d.email)]]
    ELSE [ok |-> FALSE, val |-> d]

\* ConsultationStatus.new, the default of the status field
DefaultStatus == "new"

\* The dict of the create shape completed with the default_factory fields.
WithDefaults(c, id, now) ==
    [id |-> id, name |-> c.name, email |-> c.email, company |-> c.company,
     title |-> c.title, inquiry_type |-> c.inquiry_type, message |-> c.message,
     status |-> DefaultStatus, submitted_at |-> now, contacted_at |-> None,
     notes |-> None, priority |-> "medium"]

StatusCheck(name, id, now) == [id |-> id, client_name |-> name, timestamp |-> now]

SuccessMessage == "Executive consultation request received successfully."

FailureMessage == "Unable to process your request at this time."

ConsultationResponse(success, message, id) ==
    [success |-> success, message |-> message, consultation_id |-> id,
     estimated_response_time |-> "24 hours"]

---------------------------------------------------------------------------
(* uuid4 and the clock *)

UuidPool == {"u" \o ToString(i) : i \in 1..NumUuids}

\* Faulty variant: an id generator that repeats itself.
Uuid4Repeating == {"u1"}

\* uuid.uuid4() does not repeat a value: the next one is the first of the
\* pool not drawn yet (which one it is makes no difference to a handler).
Uuid4 == {u \in UuidPool : u = "u" \o ToString(Cardinality(uuids) + 1)}

\* Faulty variant: a clock that runs backwards.
UtcNowStale == 0 - clock

\* datetime.utcnow()
UtcNow == clock

---------------------------------------------------------------------------
(* The document store.  An operation either succeeds or raises; a failed   *)
(* insert may or may not have written the document.                        *)

\* Faulty variant: the write replaces the newest document.
InsertOneReplacing(coll, doc, outcome, written) ==
    IF outcome = "ok" \/ written
    THEN IF Len(coll) = 0 THEN <<doc>> ELSE [coll EXCEPT ![Len(coll)] = doc]
    ELSE coll

\* collection.insert_one(doc)
InsertOne(coll, doc, outcome, written) ==
    IF outcome = "ok" \/ written THEN Append(coll, doc) ELSE coll

Matches(doc, query) == query = None \/ doc.status = query

\* j comes before i in a descending sort on submitted_at; equal keys are
\* ordered either way round (tieRev).
Before(coll, j, i, tieRev) ==
    \/ coll[j].submitted_at > coll[i].submitted_at
    \/ /\ coll[j].submitted_at = coll[i].submitted_at
       /\ IF tieRev THEN j > i ELSE j < i

\* The documents of coll at the indices M, sorted on submitted_at descending
\* and cut after limit: the k-th is the one that k - 1 others come before.
TopK(coll, M, limit, tieRev) ==
    LET ranked == {<<Cardinality({j \in M : Before(coll, j, i, tieRev)}), i>> : i \in M}
        n == IF Cardinality(M) < limit THEN Cardinality(M) ELSE limit
    IN  [k \in 1..n |-> coll[(CHOOSE p \in ranked : p[1] = k - 1)[2]]]

\* The documents of coll at the indices M in insertion order, cut after limit.
Natural(coll, M, limit) ==
    LET ranked == {<<Cardinality({j \in M : j < i}), i>> : i \in M}
        n == IF Cardinality(M) < limit THEN Cardinality(M) ELSE limit
    IN  [k \in 1..n |-> coll[(CHOOSE p \in ranked : p[1] = k - 1)[2]]]

\* Faulty variant: the sort left out.
FindUnsorted(coll, query, limit, tieRev) ==
    Natural(coll, {i \in 1..Len(coll) : Matches(coll[i], query)}, limit)

\* collection.find(query).sort("submitted_at", -1).to_list(limit)
Find(coll, query, limit, tieRev) ==
    TopK(coll, {i \in 1..Len(coll) : Matches(coll[i], query)}, limit, tieRev)

\* collection.find().to_list(limit): natural order
FindAll(coll, limit) == SubSeq(coll, 1, IF Len(coll) < limit THEN Len(coll) ELSE limit)

\* collection.find_one({"id": id}): the first match, if any
FindOne(coll, id) ==
    LET M == {i \in 1..Len(coll) : coll[i].id = id}
    IN  IF M = {} THEN [found |-> FALSE, doc |-> None]
        ELSE [found |-> TRUE, doc |-> coll[CHOOSE i \in M : \A j \in M : i <= j]]


---------------------------------------------------------------------------
(* Requests.  A slot holds a request suspended at its await: the handler *)
(* (op), its input (arg), the object it built before the await (obj), the  *)
(* number of stored consultations at that moment (seen) and, for a lookup, *)
(* whether its id had been acknowledged to a client by then (after).  A    *)
(* step that answers a request frees its slot and leaves the request, the  *)
(* store outcome it met and the response in out.                           *)

Idle == [op |-> "idle", arg |-> None, obj |-> None, seen |-> 0, after |-> FALSE]

NoResponse ==
    [op |-> "none", arg |-> None, obj |-> None, seen |-> 0, after |-> FALSE,
     outcome |-> None, code |-> 0, body |-> None]

Free(s) == slots[s].op = "idle"

Awaiting(s, op) == slots[s].op = op

Await(op, arg, obj, after) ==
    [op |-> op, arg |-> arg, obj |-> obj, seen |-> Len(store), after |-> after]

Done(r, outcome, resp) ==
    [op |-> r.op, arg |-> r.arg, obj |-> r.obj, seen |-> r.seen, after |-> r.after,
     outcome |-> outcome, code |-> resp.code, body |-> resp.body]

Response(code, body) == [code |-> code, body |-> body]

\* The framework's answer to a body that fails request validation, and to
\* an exception no handler catches.
RequestValidationError == Response(422, "ValidationError")

UnhandledError == Response(500, "Internal Server Error")

AckedIds == {a.id : a \in acked}

(* submit_executive_consultation, after the await *)

\* Faulty variant: no except branch.
SubmitResultRaising(obj, outcome) ==
    IF outcome = "ok"
    THEN Response(200, ConsultationResponse(TRUE, SuccessMessage, obj.id))
    ELSE UnhandledError

\* outcome "ok": inserted_id is set; "noid": it is not, the handler raises
\* and catches its own exception; "raise": insert_one raised.
SubmitResult(obj, outcome) ==
    IF outcome = "ok"
    THEN Response(200, ConsultationResponse(TRUE, SuccessMessage, obj.id))
    ELSE Response(200, ConsultationResponse(FALSE, FailureMessage, None))

(* get_executive_consultations, after the await *)

Converted(docs) == [k \in 1..Len(docs) |-> ExecutiveConsultation(docs[k]).val]

AllConvert(docs) == \A k \in 1..Len(docs) : ExecutiveConsultation(docs[k]).ok

\* Faulty variant: no except branch.
ListResultRaising(docs, outcome) ==
    IF outcome = "ok" /\ AllConvert(docs)
    THEN Response(200, Converted(docs))
    ELSE UnhandledError

ListResult(docs, outcome) ==
    IF outcome = "ok" /\ AllConvert(docs)
    THEN Response(200, Converted(docs))
    ELSE Response(200, <<>>)

(* get_consultation_by_id, after the await *)

\* The try block: a response, or the exception it raised.
GetTry(res, outcome) ==
    IF outcome # "ok"
    THEN [raised |-> TRUE, exc |-> "Exception", resp |-> UnhandledError]
    ELSE IF res.found
         THEN IF ExecutiveConsultation(res.doc).ok
              THEN [raised |-> FALSE, exc |-> None,
                    resp |-> Response(200, ExecutiveConsultation(res.doc).val)]
              ELSE [raised |-> TRUE, exc |-> "ValidationError", resp |-> UnhandledError]
         ELSE [raised |-> TRUE, exc |-> "HTTPException",
               resp |-> Response(404, "Consultation not found")]

\* "except Exception" catches every exception of the try block, the
\* HTTPException(404) it raised itself included, and raises HTTPException(500).
GetResult(res, outcome) ==
    LET t == GetTry(res, outcome)
    IN  IF t.raised THEN Response(500, "Internal server error") ELSE t.resp

---------------------------------------------------------------------------
(* Inputs *)

Email1 == <<"j", "@", "x", ".", "c">>

Email2 == <<"J", "@", "X", ".", "C">>

EmailBad == <<"j", "x", ".", "c">>

Payload1 ==
    [name |-> Text("a", MinTextLen), email |-> Email1, company |-> Text("b", MinTextLen),
     title |-> Text("c", MinTextLen), inquiry_type |-> "advisory",
     message |-> Text("m", MinMessageLen)]

Payload2 ==
    [name |-> Text("n", MaxTextLen), email |-> Email2, company |-> Text("o", MaxTextLen),
     title |-> Text("p", MaxTextLen), inquiry_type |-> "other",
     message |-> Text("q", MaxMessageLen)]

RawPayloads ==
    {Payload1, Payload2,
     [Payload1 EXCEPT !.message = Text("m", MinMessageLen - 1)],
     [Payload2 EXCEPT !.message = Text("q", MaxMessageLen + 1)],
     [Payload1 EXCEPT !.name = Text("a", MinTextLen - 1)],
     [Payload2 EXCEPT !.company = Text("o", MaxTextLen + 1)],
     [Payload1 EXCEPT !.title = Text("c", 0)],
     [Payload1 EXCEPT !.inquiry_type = "coaching"],
     [Payload1 EXCEPT !.email = EmailBad]}

Filters == {None} \cup ConsultationStatus

LookupIds == UuidPool \cup {"s1", "never-created"}

ClientNames == {"probe"}

---------------------------------------------------------------------------
(* Handlers *)

\* The clock advances between any two steps.
Tick ==
    /\ clock < MaxTicks
    /\ clock' = clock + 1
    /\ out' = NoResponse
    /\ UNCHANGED <<store, status_checks, uuids, slots, ctorSeen, acked>>

\* GET /
Root(s) ==
    /\ Free(s)
    /\ out' = Done([Idle EXCEPT !.op = "root"], "ok",
                   Response(200, "Executive Portfolio API"))
    /\ UNCHANGED <<clock, store, status_checks, uuids, slots, ctorSeen, acked>>

\* POST /consultation with a body ExecutiveConsultationCreate rejects: the
\* handler body does not run.
SubmitReject(s, raw) ==
    /\ Free(s)
    /\ ~ExecutiveConsultationCreate(raw).ok
    /\ out' = Done([Idle EXCEPT !.op = "submit", !.arg = raw], None,
                   RequestValidationError)
    /\ UNCHANGED <<clock, store, status_checks, uuids, slots, ctorSeen, acked>>

\* POST /consultation, up to "await insert_one"
SubmitBegin(s, raw, id) ==
    /\ Free(s)
    /\ ExecutiveConsultationCreate(raw).ok
    /\ id \in Uuid4
    /\ uuids' = uuids \cup {id}
    /\ LET consultation == ExecutiveConsultationCreate(raw).val
           made == ExecutiveConsultation(WithDefaults(consultation, id, UtcNow))
       IN  IF made.ok
           THEN /\ slots' = [slots EXCEPT ![s] = Await("submit", raw, made.val, FALSE)]
                /\ out' = NoResponse
           ELSE /\ slots' = slots
                /\ out' = Done([Idle EXCEPT !.op = "submit", !.arg = raw], None,
                               SubmitResult(made.val, "raise"))
    /\ UNCHANGED <<clock, store, status_checks, ctorSeen, acked>>

\* POST /consultation, from the store's answer to the response
SubmitInsert(s, outcome, written) ==
    /\ Awaiting(s, "submit")
    /\ LET r == slots[s]
           resp == SubmitResult(r.obj, outcome)
       IN  /\ store' = InsertOne(store, r.obj, outcome, written)
           /\ ctorSeen' = IF Len(store') > Len(store) THEN Append(ctorSeen, r.seen)
                          ELSE ctorSeen
           /\ out' = Done(r, outcome, resp)
           /\ acked' = IF resp.code = 200 /\ resp.body.success
                       THEN acked \cup {[id |-> resp.body.consultation_id, raw |-> r.arg]}
                       ELSE acked
    /\ slots' = [slots EXCEPT ![s] = Idle]
    /\ UNCHANGED <<clock, status_checks, uuids>>

\* GET /consultations, up to "await ...to_list(100)"
ListBegin(s, status) ==
    /\ Free(s)
    /\ slots' = [slots EXCEPT ![s] = Await("list", status, None, FALSE)]
    /\ out' = NoResponse
    /\ UNCHANGED <<clock, store, status_checks, uuids, ctorSeen, acked>>

\* GET /consultations, from the store's answer to the response
ListComplete(s, outcome, tieRev) ==
    /\ Awaiting(s, "list")
    /\ LET r == slots[s]
           docs == IF outcome = "ok" THEN Find(store, r.arg, ListLimit, tieRev) ELSE <<>>
       IN  out' = Done(r, outcome, ListResult(docs, outcome))
    /\ slots' = [slots EXCEPT ![s] = Idle]
    /\ UNCHANGED <<clock, store, status_checks, uuids, ctorSeen, acked>>

\* GET /consultation/{id}, up to "await find_one"
GetBegin(s, id) ==
    /\ Free(s)
    /\ slots' = [slots EXCEPT ![s] = Await("get", id, None, id \in AckedIds)]
    /\ out' = NoResponse
    /\ UNCHANGED <<clock, store, status_checks, uuids, ctorSeen, acked>>

\* GET /consultation/{id}, from the store's answer to the response
GetComplete(s, outcome) ==
    /\ Awaiting(s, "get")
    /\ LET r == slots[s]
           res == IF outcome = "ok" THEN FindOne(store, r.arg)
                  ELSE [found |-> FALSE, doc |-> None]
       IN  out' = Done(r, outcome, GetResult(res, outcome))
    /\ slots' = [slots EXCEPT ![s] = Idle]
    /\ UNCHANGED <<clock, store, status_checks, uuids, ctorSeen, acked>>

\* POST /status, up to "await insert_one"
StatusCreateBegin(s, name, id) ==
    /\ Free(s)
    /\ id \in Uuid4
    /\ uuids' = uuids \cup {id}
    /\ slots' = [slots EXCEPT ![s] =
                    Await("status_create", name, StatusCheck(name, id, UtcNow), FALSE)]
    /\ out' = NoResponse
    /\ UNCHANGED <<clock, store, status_checks, ctorSeen, acked>>

\* POST /status, from the store's answer to the response; the handler
\* catches nothing.
StatusCreateInsert(s, outcome, written) ==
    /\ Awaiting(s, "status_create")
    /\ LET r == slots[s]
       IN  /\ status_checks' = InsertOne(status_checks, r.obj, outcome, written)
           /\ out' = Done(r, outcome,
                          IF outcome = "ok" THEN Response(200, r.obj)
                          ELSE UnhandledError)
    /\ slots' = [slots EXCEPT ![s] = Idle]
    /\ UNCHANGED <<clock, store, uuids, ctorSeen, acked>>

\* GET /status, up to "await ...to_list(1000)"
StatusListBegin(s) ==
    /\ Free(s)
    /\ slots' = [slots EXCEPT ![s] = Await("status_list", None, None, FALSE)]
    /\ out' = NoResponse
    /\ UNCHANGED <<clock, store, status_checks, uuids, ctorSeen, acked>>

\* GET /status, from the store's answer to the response
StatusListComplete(s, outcome) ==
    /\ Awaiting(s, "status_list")
    /\ out' = Done(slots[s], outcome,
                   IF outcome = "ok"
                   THEN Response(200, FindAll(status_checks, StatusListLimit))
                   ELSE UnhandledError)
    /\ slots' = [slots EXCEPT ![s] = Idle]
    /\ UNCHANGED <<clock, store, status_checks, uuids, ctorSeen, acked>>

---------------------------------------------------------------------------
(* The database the process connects to.  Documents stored before the      *)
(* process started were written by earlier submissions, one after another, *)
(* and their status may have been changed since by the administrators.     *)

SeedStatus(i) ==
    CASE i % 4 = 0 -> "closed" [] i % 4 = 1 -> "new" [] i % 4 = 2 -> "contacted"
      [] OTHER -> "in_progress"

SeedDoc(i, n) ==
    [WithDefaults(ExecutiveConsultationCreate(IF i % 2 = 0 THEN Payload1 ELSE Payload2).val,
                  "s" \o ToString(i), 0 - ((n - i) \div 2))
       EXCEPT !.status = SeedStatus(i)]

Seed(n) == [i \in 1..n |-> SeedDoc(i, n)]

InitWith(seedLens, nslots) ==
    /\ clock = 0
    /\ \E n \in seedLens : /\ store = Seed(n)
                           /\ ctorSeen = [i \in 1..n |-> i - 1]
    /\ status_checks = <<>>
    /\ uuids = {}
    /\ slots = [s \in 1..nslots |-> Idle]
    /\ out = NoResponse
    /\ acked = {}

\* One request at a time, every handler.
Init == InitWith({0, SeedLen}, 1)

\* One request at a time, over a database that holds more consultations
\* than a listing returns.
InitFull == InitWith({ListLimit + SeedExtra}, 1)

\* Several requests in flight.
InitConc == InitWith({0}, MaxSlots)

Outcomes == {"ok", "raise"}

InsertOutcomes == {"ok", "raise", "noid"}

RootStep == \E s \in DOMAIN slots : Root(s)

SubmitRejectStep == \E s \in DOMAIN slots, raw \in RawPayloads : SubmitReject(s, raw)

SubmitBeginStep ==
    \E s \in DOMAIN slots, raw \in RawPayloads, id \in UuidPool : SubmitBegin(s, raw, id)

SubmitInsertStep ==
    \E s \in DOMAIN slots, o \in InsertOutcomes, w \in BOOLEAN : SubmitInsert(s, o, w)

ListBeginStep == \E s \in DOMAIN slots, f \in Filters : ListBegin(s, f)

ListCompleteStep ==
    \E s \in DOMAIN slots, o \in Outcomes, t \in BOOLEAN : ListComplete(s, o, t)

GetBeginStep == \E s \in DOMAIN slots, id \in LookupIds : GetBegin(s, id)

GetCompleteStep == \E s \in DOMAIN slots, o \in Outcomes : GetComplete(s, o)

StatusCreateBeginStep ==
    \E s \in DOMAIN slots, n \in ClientNames, id \in UuidPool : StatusCreateBegin(s, n, id)

StatusCreateInsertStep ==
    \E s \in DOMAIN slots, o \in Outcomes, w \in BOOLEAN : StatusCreateInsert(s, o, w)

StatusListBeginStep == \E s \in DOMAIN slots : StatusListBegin(s)

StatusListCompleteStep == \E s \in DOMAIN slots, o \in Outcomes : StatusListComplete(s, o)

Next ==
    \/ Tick
    \/ RootStep
    \/ SubmitRejectStep
    \/ SubmitBeginStep
    \/ SubmitInsertStep
    \/ ListBeginStep
    \/ ListCompleteStep
    \/ GetBeginStep
    \/ GetCompleteStep
    \/ StatusCreateBeginStep
    \/ StatusCreateInsertStep
    \/ StatusListBeginStep
    \/ StatusListCompleteStep

\* Create and list requests only.
NextList ==
    \/ Tick
    \/ SubmitRejectStep
    \/ SubmitBeginStep
    \/ SubmitInsertStep
    \/ ListBeginStep
    \/ ListCompleteStep

\* Valid create requests only.
NextCreate ==
    \/ Tick
    \/ SubmitBeginStep
    \/ SubmitInsertStep

Spec == Init /\ [][Next]_vars

SpecFull == InitFull /\ [][NextList]_vars

SpecConc == InitConc /\ [][NextCreate]_vars

---------------------------------------------------------------------------
(* Properties *)

Sent(op) == out.op = op

Indices(coll) == 1..Len(coll)

\* C1: a lookup of an id that matches no stored record, with the store
\* answering, ends with the not-found signal 404 (not the server error 500).
C1_NotFoundIs404 ==
    (Sent("get") /\ out.outcome = "ok" /\ ~FindOne(store, out.arg).found)
        => out.code = 404

\* The payload violates a field constraint: a length bound, the e-mail
\* syntax (the one malformed address of the inputs) or the enumeration.
ViolatesConstraint(raw) ==
    \/ StrLen(raw.name) \notin 2..100
    \/ StrLen(raw.company) \notin 2..100
    \/ StrLen(raw.title) \notin 2..100
    \/ StrLen(raw.message) \notin 10..2000
    \/ raw.email = EmailBad
    \/ raw.inquiry_type \notin
          {"advisory", "interim", "transformation", "board", "consulting", "other"}

\* C2 as stated: a create request whose payload violates a field constraint
\* is answered with a structured response carrying success = false.
C2_InvalidGetsSuccessFalse ==
    (Sent("submit") /\ ViolatesConstraint(out.arg))
        => (out.code = 200 /\ out.body.success = FALSE)

\* C2 amended: such a request is answered with the request-validation
\* failure (422) before the handler body runs: no record is constructed, no
\* store call is made and no ConsultationResponse is returned.
C2_InvalidGets422 ==
    (Sent("submit") /\ ViolatesConstraint(out.arg))
        => /\ out.code = 422
           /\ out.body = "ValidationError"
           /\ out.obj = None
           /\ out.outcome = None

C2_Witness ==
    Sent("submit") /\ out.arg.email = EmailBad /\ out.code = 422

\* C3: for a valid payload whose insert fails (insert_one raises or returns
\* no inserted id) the handler returns success = false with the generic
\* message and no consultation_id; nothing is raised past the handler.
C3_InsertFailureIsAbsorbed ==
    (Sent("submit") /\ out.outcome \in {"raise", "noid"})
        => /\ out.code = 200
           /\ out.body.success = FALSE
           /\ out.body.message = FailureMessage
           /\ out.body.consultation_id = None

C3_Witness ==
    /\ Sent("submit")
    /\ out.outcome = "noid"
    /\ ~ViolatesConstraint(out.arg)
    /\ out.body.success = FALSE

\* C4: a create request with a message shorter than 10 characters or an
\* inquiry_type outside the enumeration is rejected with a validation
\* failure, and the stored consultations are the same after it as before.
C4_ShortOrUnknownIsRejected ==
    [][(/\ out'.op = "submit"
        /\ \/ StrLen(out'.arg.message) < 10
           \/ out'.arg.inquiry_type \notin
                 {"advisory", "interim", "transformation", "board", "consulting", "other"})
          => (out'.code = 422 /\ store' = store)]_vars

C4_Witness ==
    /\ Sent("submit")
    /\ StrLen(out.arg.message) < 10
    /\ out.code = 422
    /\ Len(store) > 0

\* C5 as stated: submitted_at is non-decreasing in insertion order, whatever
\* the interleaving of the create requests.
C5_MonotoneInInsertionOrder ==
    \A i, j \in Indices(store) :
        i < j => store[i].submitted_at <= store[j].submitted_at

\* C5 amended: if record A was already in the store when the handler of
\* record B constructed B, then A.submitted_at <= B.submitted_at.
C5_MonotoneWhenNotOverlapping ==
    \A i, j \in Indices(store) :
        i <= ctorSeen[j] => store[i].submitted_at <= store[j].submitted_at

C5_Witness ==
    /\ Len(store) = 2
    /\ ctorSeen[2] = 1
    /\ store[1].submitted_at < store[2].submitted_at

\* C6: when the store answers, the listing is the first 100 of the stored
\* consultations (all of them, or those whose status equals the filter)
\* in descending submitted_at order.
C6_ListIsTopSorted ==
    (Sent("list") /\ out.outcome = "ok") =>
        LET M == {i \in Indices(store) : out.arg = None \/ store[i].status = out.arg}
            b == out.body
        IN  /\ Len(b) = IF Cardinality(M) < ListLimit THEN Cardinality(M) ELSE ListLimit
            /\ \A k \in Indices(b) : \E i \in M : b[k] = store[i]
            /\ \A k, l \in Indices(b) : k < l => b[k].id # b[l].id
            /\ \A k \in Indices(b) : k < Len(b) => b[k].submitted_at >= b[k + 1].submitted_at
            /\ \A i \in M : \/ \E k \in Indices(b) : b[k] = store[i]
                           \/ \A k \in Indices(b) : b[k].submitted_at >= store[i].submitted_at
            /\ out.arg # None => \A k \in Indices(b) : b[k].status = out.arg

C6_Witness ==
    /\ Sent("list")
    /\ out.outcome = "ok"
    /\ out.arg = None
    /\ Len(store) > ListLimit
    /\ Len(out.body) = ListLimit
    /\ out.body[1].id = "u1"

\* The record a lookup returned carries the fields of the acknowledged
\* create request a, with the given e-mail address.
ReturnsCreated(a, email) ==
    /\ out.code = 200
    /\ out.body.id = a.id
    /\ out.body.name = a.raw.name
    /\ out.body.email = email
    /\ out.body.company = a.raw.company
    /\ out.body.title = a.raw.title
    /\ out.body.inquiry_type = a.raw.inquiry_type
    /\ out.body.message = a.raw.message
    /\ out.body.status = "new"

\* C7 as stated: a lookup that follows a successful create returns the
\* submitted name, email, company, title, inquiry_type and message, the
\* acknowledged id and status "new".
C7_RoundTripVerbatim ==
    (Sent("get") /\ out.after /\ out.outcome = "ok") =>
        \A a \in acked : a.id = out.arg => ReturnsCreated(a, a.raw.email)

\* C7 amended: the same, except that the e-mail address comes back with its
\* domain part in lower case.
C7_RoundTripNormalizedEmail ==
    (Sent("get") /\ out.after /\ out.outcome = "ok") =>
        \A a \in acked : a.id = out.arg => ReturnsCreated(a, NormalizeEmail(a.raw.email))

C7_Witness ==
    /\ Sent("get")
    /\ out.after
    /\ out.code = 200
    /\ \E a \in acked : a.id = out.arg /\ a.raw = Payload2

Extends(new, old) ==
    /\ Len(new) \in {Len(old), Len(old) + 1}
    /\ \A i \in Indices(old) : new[i] = old[i]

\* C9: no step deletes or alters a stored record; a step of a read
\* operation leaves both collections as they are, a create adds at most one
\* record to its own collection.
C9_StoredRecordsAreKept ==
    [][/\ Extends(store', store)
       /\ Extends(status_checks', status_checks)
       /\ out'.op # "submit" => store' = store
       /\ out'.op # "status_create" => status_checks' = status_checks]_vars

C9_Witness ==
    /\ Sent("submit")
    /\ out.outcome = "ok"
    /\ Len(store) = SeedLen + 1
    /\ Len(status_checks) = 1

\* C10: the consultation_id of every success = true response identifies
\* exactly one stored record, the one that request inserted.
C10_AckedIdIsOneRecord ==
    \A a \in acked :
        /\ Cardinality({i \in Indices(store) : store[i].id = a.id}) = 1
        /\ \A i \in Indices(store) :
              store[i].id = a.id => /\ store[i].name = a.raw.name
                                    /\ store[i].message = a.raw.message

C10_Witness ==
    /\ Cardinality(acked) = 2
    /\ Len(store) = 2
    /\ store[1].submitted_at > store[2].submitted_at

=============================================================================
